---------------------------- MODULE Spec2Model ----------------------------
(***************************************************************************)
(* Model of src/src/App.tsx: the App component of the food spoilage        *)
(* dashboard.  State is the component's useState cells plus the browser's  *)
(* interval timers; one action per event handler / timer period, each      *)
(* including the re-render and the effects React runs after it.            *)
(*                                                                         *)
(* Numbers.  Sensor channels are JavaScript numbers; the model keeps them  *)
(* as integers in units of 1/1000 ppm (Milli), and a Math.random() draw as *)
(* an integer number of thousandths in 0..999.                             *)
(* Text.  Strings that the code converts (form fields, toFixed output,     *)
(* the history time stamp) are sequences of one-character strings.         *)
(***************************************************************************)
EXTENDS Integers, Sequences, FiniteSets, TLC

VARIABLES
    isConnected,    \* useState<boolean>(false)
    selectedPort,   \* useState<string>("COM3")
    selectedModel,  \* useState<string>("random_forest")
    dataSource,     \* useState<"simulation" | "manual">("simulation")
    sensorData,     \* useState<SensorData>
    dataHistory,    \* useState<HistoryData[]>([])
    manualInput,    \* useState<ManualInputState>
    verdict,        \* const verdict = getVerdict(sensorData), per render
    timers,         \* the browser's active setInterval ids
    interval,       \* the `interval` captured by the generator effect's cleanup
    mounted,        \* FALSE until the first commit has run its effects
    now,            \* wall clock, in generator periods of 800 ms
    appended        \* history log: every entry the history effect ever appended

vars == <<isConnected, selectedPort, selectedModel, dataSource, sensorData,
          dataHistory, manualInput, verdict, timers, interval, mounted, now,
          appended>>

(***************************************************************************)
(* Units and small arithmetic helpers                                      *)
(***************************************************************************)
Milli == 1000

Max(a, b) == IF a >= b THEN a ELSE b
Min(a, b) == IF a <= b THEN a ELSE b

Digits == <<"0", "1", "2", "3", "4", "5", "6", "7", "8", "9">>

DigitChar(d) == Digits[d + 1]

IsDigit(c) == \E d \in 0..9 : Digits[d + 1] = c

DigitVal(c) == CHOOSE d \in 0..9 : Digits[d + 1] = c

RECURSIVE NatText(_)
\* decimal digits of a natural number, most significant first
NatText(n) == IF n < 10 THEN <<DigitChar(n)>>
              ELSE Append(NatText(n \div 10), DigitChar(n % 10))

RECURSIVE DigitsValue(_)
\* value of a non-empty sequence of digit characters
DigitsValue(s) == IF Len(s) = 0 THEN 0
                  ELSE 10 * DigitsValue(SubSeq(s, 1, Len(s) - 1)) + DigitVal(s[Len(s)])

AllDigits(s) == \A i \in 1..Len(s) : IsDigit(s[i])

(***************************************************************************)
(* JavaScript conversions used by the component                            *)
(***************************************************************************)
RECURSIVE TrimLeft(_)
TrimLeft(s) == IF Len(s) > 0 /\ s[1] = " " THEN TrimLeft(Tail(s)) ELSE s

RECURSIVE TrimRight(_)
TrimRight(s) == IF Len(s) > 0 /\ s[Len(s)] = " "
                THEN TrimRight(SubSeq(s, 1, Len(s) - 1)) ELSE s

NaN == [nan |-> TRUE, val |-> 0]

Num(v) == [nan |-> FALSE, val |-> v]

\* position of the first "." of s, or 0
DotAt(s) == IF \E i \in 1..Len(s) : s[i] = "."
            THEN CHOOSE i \in 1..Len(s) : s[i] = "." /\ \A j \in 1..(i - 1) : s[j] # "."
            ELSE 0

\* an unsigned decimal literal: digits, digits.digits, digits. or .digits
\* (fractions of at most three digits: the model's numbers are thousandths)
UnsignedValue(s) ==
    LET dot  == DotAt(s)
        ip   == IF dot = 0 THEN s ELSE SubSeq(s, 1, dot - 1)
        fp   == IF dot = 0 THEN <<>> ELSE SubSeq(s, dot + 1, Len(s))
        pad  == fp \o SubSeq(<<"0", "0", "0">>, 1, 3 - Len(fp))
    IN  IF Len(ip) + Len(fp) = 0 \/ ~AllDigits(ip) \/ ~AllDigits(fp) \/ Len(fp) > 3
        THEN NaN
        ELSE Num(DigitsValue(ip) * Milli + DigitsValue(pad))

\* Number(string): white space is trimmed, the empty string is 0, a signed
\* decimal literal is its value, anything else is NaN
StringToNumber(s) ==
    LET t    == TrimRight(TrimLeft(s))
        neg  == Len(t) > 0 /\ t[1] = "-"
        sgn  == Len(t) > 0 /\ t[1] \in {"-", "+"}
        body == IF sgn THEN Tail(t) ELSE t
        u    == UnsignedValue(body)
    IN  IF Len(t) = 0 THEN Num(0)
        ELSE IF u.nan THEN NaN
        ELSE IF neg THEN Num(0 - u.val) ELSE u

\* a form field is a string (typed) or a number (filled in by randomize)
TextField(s) == [isNum |-> FALSE, text |-> s, val |-> 0]

NumField(v) == [isNum |-> TRUE, text |-> <<>>, val |-> v]

\* Number(field)
Number(f) == IF f.isNum THEN Num(f.val) ELSE StringToNumber(f.text)

\* x ?? 0: NaN is not nullish and stays (shown here as -1 ppm)
OrZeroNullish(x) == IF x.nan THEN 0 - Milli ELSE x.val

\* x || 0 for a number x: NaN and 0 are falsy
OrZero(x) == IF x.nan \/ x.val = 0 THEN 0 ELSE x.val

\* units of the confidence arithmetic: 1/100000
ConfUnit == 100 * Milli

\* x.toFixed(2) of x given in ConfUnits: the nearest hundredth, the larger
\* one on a tie, as "<integer part>.<two digits>"
ToFixed2(x) ==
    LET a  == IF x < 0 THEN 0 - x ELSE x
        h  == (a * 100 + ConfUnit \div 2) \div ConfUnit
        tx == NatText(h \div 100) \o <<".">> \o
              <<DigitChar((h % 100) \div 10), DigitChar(h % 10)>>
    IN  IF x < 0 /\ h > 0 THEN <<"-">> \o tx ELSE tx

\* minute and second of the wall clock as two two-digit groups, "mm.ss"
\* (toLocaleTimeString('id-ID', {hour12: false, minute: '2-digit', second: '2-digit'}))
PeriodMs == 800

TimeText(t) ==
    LET secs == (t * PeriodMs) \div 1000
        mm   == (secs \div 60) % 60
        ss   == secs % 60
    IN  <<DigitChar(mm \div 10), DigitChar(mm % 10), ".",
          DigitChar(ss \div 10), DigitChar(ss % 10)>>

(***************************************************************************)
(* getVerdict                                                              *)
(***************************************************************************)
Threshold == 300 * Milli

IsSpoiledGE(data) == data.mq3 >= Threshold

IsSpoiled(data) == data.mq3 > Threshold

\* the confidence before toFixed, in ConfUnits
ConfidenceSwapped(data) ==
    LET cap == (999 * ConfUnit) \div 10
    IN  IF IsSpoiled(data)
        THEN Min(cap, 90 * ConfUnit + ((data.mq3 - Threshold) * (ConfUnit \div Milli) * 5) \div 100)
        ELSE Min(cap, 85 * ConfUnit + ((Threshold - data.mq3) * (ConfUnit \div Milli)) \div 10)

Confidence(data) ==
    LET cap == (999 * ConfUnit) \div 10
    IN  IF IsSpoiled(data)
        THEN Min(cap, 85 * ConfUnit + ((data.mq3 - Threshold) * (ConfUnit \div Milli)) \div 10)
        ELSE Min(cap, 90 * ConfUnit + ((Threshold - data.mq3) * (ConfUnit \div Milli) * 5) \div 100)

getVerdict(data) ==
    [status     |-> IF IsSpoiled(data) THEN "SPOILED" ELSE "FRESH",
     label      |-> IF IsSpoiled(data) THEN "BUSUK (Terdeteksi Fermentasi)"
                                       ELSE "SEGAR (Layak Konsumsi)",
     confidence |-> ToFixed2(Confidence(data)),
     details    |-> IF IsSpoiled(data)
                    THEN "Kadar alkohol tinggi terdeteksi oleh sensor MQ3, mengindikasikan aktivitas mikroba."
                    ELSE "Profil gas dalam batas normal. Tidak ada tanda fermentasi signifikan."]

(***************************************************************************)
(* State after useState initialisation and the first render                *)
(***************************************************************************)
PortOptions == {"COM3", "COM4", "/dev/ttyUSB0"}

ModelOptions == {"random_forest", "logistic", "xgboost"}

Fields == {"mq3", "mq4", "mq8", "mq135"}

InitialSensorData ==
    [mq3 |-> 45 * Milli, mq4 |-> 200 * Milli, mq8 |-> 150 * Milli, mq135 |-> 300 * Milli]

InitialManualInput == [f \in Fields |-> TextField(<<>>)]

\* `let interval` before any setInterval: undefined, which no timer id equals
NoInterval == 0

InitWith(input) ==
    /\ isConnected = FALSE
    /\ selectedPort = "COM3"
    /\ selectedModel = "random_forest"
    /\ dataSource = "simulation"
    /\ sensorData = InitialSensorData
    /\ dataHistory = <<>>
    /\ manualInput = input
    /\ verdict = getVerdict(InitialSensorData)
    /\ timers = {}
    /\ interval = NoInterval
    /\ mounted = FALSE
    /\ now = 0
    /\ appended = <<>>

Init == InitWith(InitialManualInput)

(***************************************************************************)
(* The generator effect, deps [isConnected, dataSource]                    *)
(***************************************************************************)
\* setInterval returns an id no active timer has
SetInterval(ts) ==
    CHOOSE i \in 1..(Cardinality(ts) + 1) : i \notin ts /\ \A j \in 1..(i - 1) : j \in ts

\* a cleanup that leaves the timer running
ClearIntervalLeak(ts, id) == ts

\* the effect's cleanup: clearInterval(interval)
ClearInterval(ts, id) == ts \ {id}

\* the updater without the clamp of the primary channel
TickUpdateNoClamp(prev, d) ==
    LET isSpike   == d[1] * 100 > 85 * 1000
        changeMQ3 == IF isSpike
                     THEN (IF prev.mq3 < 200 * Milli THEN 150 * Milli ELSE 0 - 100 * Milli)
                     ELSE d[2] * 40 - 20 * Milli
    IN  [mq3   |-> prev.mq3 + changeMQ3,
         mq4   |-> Max(0, 200 * Milli + (d[3] * 20 - 10 * Milli)),
         mq8   |-> Max(0, 150 * Milli + (d[4] * 15 - (75 * Milli) \div 10)),
         mq135 |-> Max(0, 300 * Milli + (d[5] * 30 - 15 * Milli))]

\* the updater passed to setSensorData by the interval callback; d holds the
\* five Math.random() results in call order, in thousandths
TickUpdate(prev, d) ==
    LET isSpike   == d[1] * 100 > 85 * 1000
        changeMQ3 == IF isSpike
                     THEN (IF prev.mq3 < 200 * Milli THEN 150 * Milli ELSE 0 - 100 * Milli)
                     ELSE d[2] * 40 - 20 * Milli
        newMQ3    == Max(0, prev.mq3 + changeMQ3)
        newMQ4    == Max(0, 200 * Milli + (d[3] * 20 - 10 * Milli))
        newMQ8    == Max(0, 150 * Milli + (d[4] * 15 - (75 * Milli) \div 10))
        newMQ135  == Max(0, 300 * Milli + (d[5] * 30 - 15 * Milli))
    IN  [mq3 |-> newMQ3, mq4 |-> newMQ4, mq8 |-> newMQ8, mq135 |-> newMQ135]

\* the effect after a commit with the new isConnected and dataSource: when a
\* dep changed (or on mount) the previous run's cleanup, then the new run
GeneratorEffect(conn, src) ==
    LET run     == ~mounted \/ conn # isConnected \/ src # dataSource
        cleaned == IF mounted THEN ClearInterval(timers, interval) ELSE timers
    IN  IF ~run
        THEN UNCHANGED <<timers, interval>>
        ELSE IF conn /\ src = "simulation"
             THEN /\ interval' = SetInterval(cleaned)
                  /\ timers' = cleaned \cup {SetInterval(cleaned)}
             ELSE /\ interval' = NoInterval
                  /\ timers' = cleaned

(***************************************************************************)
(* The history effect, deps [sensorData]                                   *)
(***************************************************************************)
HistoryLimit == 20

NewEntry(data, t) ==
    [time |-> TimeText(t), mq3 |-> data.mq3, mq4 |-> data.mq4,
     mq8 |-> data.mq8, mq135 |-> data.mq135]

\* an updater that never evicts
HistoryUpdateNoShift(prev, newEntry) == Append(prev, newEntry)

\* an updater that evicts the newest entry instead of the oldest
HistoryUpdatePop(prev, newEntry) ==
    LET newHistory == Append(prev, newEntry)
    IN  IF Len(newHistory) > HistoryLimit
        THEN SubSeq(newHistory, 1, Len(newHistory) - 1) ELSE newHistory

\* the updater passed to setDataHistory
HistoryUpdate(prev, newEntry) ==
    LET newHistory == Append(prev, newEntry)
    IN  IF Len(newHistory) > HistoryLimit THEN Tail(newHistory) ELSE newHistory

Channels(e) == [mq3 |-> e.mq3, mq4 |-> e.mq4, mq8 |-> e.mq8, mq135 |-> e.mq135]

\* an effect that skips a Reading whose four values equal the newest entry's
HistoryEffectDedup(data, t, by) ==
    IF Len(dataHistory) > 0 /\ Channels(dataHistory[Len(dataHistory)]) = data
    THEN UNCHANGED <<dataHistory, appended>>
    ELSE /\ dataHistory' = HistoryUpdate(dataHistory, NewEntry(data, t))
         /\ appended' = Append(appended, [entry |-> NewEntry(data, t), by |-> by])

\* the effect after a commit that stored the object `data` in sensorData
\* (every setSensorData call of the component stores a new object)
HistoryEffect(data, t, by) ==
    /\ dataHistory' = HistoryUpdate(dataHistory, NewEntry(data, t))
    /\ appended' = Append(appended, [entry |-> NewEntry(data, t), by |-> by])

(***************************************************************************)
(* Bounds of the model                                                     *)
(***************************************************************************)
\* Spec: entries ever appended, and periods of wall-clock time
MaxLog == 3

MaxNow == 2

\* SpecHist: the same, for long sessions, and the injections and the
\* periods without a timer callback in one session
LongLog == 25

LongNow == 26

LongInject == 1

LongIdle == 1

\* SpecForm: the largest whole number typed into the mq3 field
MaxTyped == 1001

\* SpecOps: entries ever appended, periods of wall-clock time and injections
OpsLog == 22

OpsNow == 22

OpsInject == 1

(***************************************************************************)
(* Mount: the first commit runs both effects                               *)
(***************************************************************************)
Mount ==
    /\ ~mounted
    /\ mounted' = TRUE
    /\ GeneratorEffect(isConnected, dataSource)
    /\ HistoryEffect(sensorData, now, "mount")
    /\ UNCHANGED <<isConnected, selectedPort, selectedModel, dataSource,
                   sensorData, manualInput, verdict, now>>

(***************************************************************************)
(* Sidebar controls                                                        *)
(***************************************************************************)
SelectPort ==
    /\ mounted
    /\ \E p \in PortOptions : selectedPort' = p
    /\ UNCHANGED <<isConnected, selectedModel, dataSource, sensorData, dataHistory,
                   manualInput, verdict, timers, interval, mounted, now, appended>>

SelectModel ==
    /\ mounted
    /\ \E m \in ModelOptions : selectedModel' = m
    /\ UNCHANGED <<isConnected, selectedPort, dataSource, sensorData, dataHistory,
                   manualInput, verdict, timers, interval, mounted, now, appended>>

\* a START that connects without setting the source back to simulation
StartKeepsSource ==
    /\ mounted
    /\ ~isConnected
    /\ isConnected' = TRUE
    /\ GeneratorEffect(TRUE, dataSource)
    /\ UNCHANGED <<selectedPort, selectedModel, dataSource, sensorData, dataHistory,
                   manualInput, verdict, mounted, now, appended>>

\* START: onClick of a button that is disabled while isConnected
Start ==
    /\ mounted
    /\ ~isConnected
    /\ isConnected' = TRUE
    /\ dataSource' = "simulation"
    /\ GeneratorEffect(TRUE, "simulation")
    /\ UNCHANGED <<selectedPort, selectedModel, sensorData, dataHistory,
                   manualInput, verdict, mounted, now, appended>>

\* a STOP that also empties the chart's history
StopClearsHistory ==
    /\ mounted
    /\ isConnected
    /\ isConnected' = FALSE
    /\ dataHistory' = <<>>
    /\ GeneratorEffect(FALSE, dataSource)
    /\ UNCHANGED <<selectedPort, selectedModel, dataSource, sensorData,
                   manualInput, verdict, mounted, now, appended>>

\* STOP: onClick of a button that is disabled while not isConnected
Stop ==
    /\ mounted
    /\ isConnected
    /\ isConnected' = FALSE
    /\ GeneratorEffect(FALSE, dataSource)
    /\ UNCHANGED <<selectedPort, selectedModel, dataSource, sensorData, dataHistory,
                   manualInput, verdict, mounted, now, appended>>

(***************************************************************************)
(* Data injection form                                                     *)
(***************************************************************************)
\* onChange of one form field: the field takes the typed string
TypeField(typed) ==
    /\ mounted
    /\ \E t \in typed : manualInput' = [manualInput EXCEPT ![t[1]] = TextField(t[2])]
    /\ UNCHANGED <<isConnected, selectedPort, selectedModel, dataSource, sensorData,
                   dataHistory, verdict, timers, interval, mounted, now, appended>>

\* Math.floor(Math.random() * n) for a draw r in thousandths
RandomBelow(r, n) == ((r * n) \div 1000) * Milli

RandomForm(d) ==
    [mq3   |-> NumField(RandomBelow(d[1], 500)),
     mq4   |-> NumField(RandomBelow(d[2], 400)),
     mq8   |-> NumField(RandomBelow(d[3], 300)),
     mq135 |-> NumField(RandomBelow(d[4], 600))]

\* a randomize that also makes the drawn values the Reading
generateRandomManualApplied(draws) ==
    /\ mounted
    /\ \E d \in draws :
          /\ manualInput' = RandomForm(d)
          /\ sensorData' = [f \in Fields |-> RandomForm(d)[f].val]
    /\ verdict' = getVerdict(sensorData')
    /\ UNCHANGED <<isConnected, selectedPort, selectedModel, dataSource,
                   dataHistory, timers, interval, mounted, now, appended>>

generateRandomManual(draws) ==
    /\ mounted
    /\ \E d \in draws : manualInput' = RandomForm(d)
    /\ UNCHANGED <<isConnected, selectedPort, selectedModel, dataSource, sensorData,
                   dataHistory, verdict, timers, interval, mounted, now, appended>>

InjectedReading(input) ==
    [mq3   |-> OrZero(Number(input.mq3)),
     mq4   |-> OrZero(Number(input.mq4)),
     mq8   |-> OrZero(Number(input.mq8)),
     mq135 |-> OrZero(Number(input.mq135))]

Injections(log) == Cardinality({i \in 1..Len(log) : log[i].by = "inject"})

handleManualInject(maxLog, maxInject) ==
    /\ mounted
    /\ Len(appended) < maxLog
    /\ Injections(appended) < maxInject
    /\ dataSource' = "manual"
    /\ isConnected' = FALSE
    /\ sensorData' = InjectedReading(manualInput)
    /\ verdict' = getVerdict(sensorData')
    /\ GeneratorEffect(FALSE, "manual")
    /\ HistoryEffect(sensorData', now, "inject")
    /\ UNCHANGED <<selectedPort, selectedModel, manualInput, mounted, now>>

(***************************************************************************)
(* One 800 ms period of wall-clock time: an active interval timer runs its *)
(* callback, which replaces sensorData by the updater's result             *)
(***************************************************************************)
Ticks(log) == Cardinality({i \in 1..Len(log) : log[i].by = "tick"})

Elapse(draws, maxNow, maxIdle, maxLog) ==
    /\ mounted
    /\ now < maxNow
    /\ now' = now + 1
    /\ IF timers = {}
       THEN /\ now - Ticks(appended) < maxIdle
            /\ UNCHANGED <<sensorData, verdict, dataHistory, appended>>
       ELSE /\ Len(appended) < maxLog
            /\ \E d \in draws : sensorData' = TickUpdate(sensorData, d)
            /\ verdict' = getVerdict(sensorData')
            /\ HistoryEffect(sensorData', now', "tick")
    /\ UNCHANGED <<isConnected, selectedPort, selectedModel, dataSource,
                   manualInput, timers, interval, mounted>>

(***************************************************************************)
(* Spec: every control, small inputs, short sessions                       *)
(***************************************************************************)
\* Math.random() results of one callback, in call order: no spike with the
\* lowest deltas, no spike with the highest, a spike
TickDraws == {<<0, 0, 0, 0, 0>>, <<850, 999, 999, 999, 999>>, <<851, 500, 500, 500, 500>>}

FormDraws == {<<999, 0, 500, 123>>}

TypedInputs == {<<"mq3", <<"a", "b", "c">>>>, <<"mq3", <<"-", "5">>>>}

Next ==
    \/ Mount
    \/ SelectPort
    \/ SelectModel
    \/ Start
    \/ Stop
    \/ TypeField(TypedInputs)
    \/ generateRandomManual(FormDraws)
    \/ handleManualInject(MaxLog, MaxLog)
    \/ Elapse(TickDraws, MaxNow, MaxNow, MaxLog)

Spec == Init /\ [][Next]_vars

(***************************************************************************)
(* SpecHist: long sessions (more than HistoryLimit readings), a steady     *)
(* generator and at most LongInject injections                             *)
(***************************************************************************)
\* no spike, mq3 rises by 4 ppm, the other channels sit at their centres
HistDraws == {<<0, 600, 500, 500, 500>>}

NextHist ==
    \/ Mount
    \/ Start
    \/ Stop
    \/ handleManualInject(LongLog, LongInject)
    \/ Elapse(HistDraws, LongNow, LongIdle, LongLog)

SpecHist == Init /\ [][NextHist]_vars

(***************************************************************************)
(* SpecForm: the operator has filled in the form before the session; wide  *)
(* choice of field values, short sessions                                  *)
(***************************************************************************)
IntText(n) == IF n < 0 THEN <<"-">> \o NatText(0 - n) ELSE NatText(n)

\* mq3 typed as a whole number, the other fields blank
WholeForms ==
    {[InitialManualInput EXCEPT !.mq3 = TextField(IntText(n))] : n \in (0 - 3)..MaxTyped}

\* mq3 typed with a fraction, a sign or blanks around it
FractionTexts ==
    {<<"3", "0", "0", ".", "0", "0", "1">>, <<"2", "9", "9", ".", "9", "9", "9">>,
     <<"3", "0", "0", ".", "0", "5">>, <<"2", "9", "9", ".", "9">>, <<"3", "0", "0", ".">>, <<".", "5">>,
     <<"-", "0", ".", "5">>, <<"+", "7">>, <<" ", "7", " ">>, <<" ">>, <<".">>,
     <<"-">>, <<"1", "-", "2">>, <<"1", ".", "2", ".", "3">>}

FractionForms == {[InitialManualInput EXCEPT !.mq3 = TextField(t)] : t \in FractionTexts}

\* every field one of a few texts
MixedTexts == {<<>>, <<"a", "b", "c">>, <<"5", "0">>, <<"1", "0">>, <<"-", "5">>}

MixedForms == [Fields -> {TextField(t) : t \in MixedTexts}]

FormInputs == WholeForms \cup FractionForms \cup MixedForms

InitForm == \E input \in FormInputs : InitWith(input)

NextForm ==
    \/ Mount
    \/ Start
    \/ handleManualInject(MaxLog, MaxLog)
    \/ Elapse(TickDraws, MaxNow, MaxNow, MaxLog)

SpecForm == InitForm /\ [][NextForm]_vars

(***************************************************************************)
(* SpecOps: long sessions with every sidebar control and the randomize     *)
(* button, a steady generator, time passing only while it runs             *)
(***************************************************************************)
NextOps ==
    \/ Mount
    \/ SelectPort
    \/ SelectModel
    \/ Start
    \/ Stop
    \/ generateRandomManual(FormDraws)
    \/ handleManualInject(OpsLog, OpsInject)
    \/ Elapse(HistDraws, OpsNow, 0, OpsLog)

SpecOps == Init /\ [][NextOps]_vars

(***************************************************************************)
(* Properties                                                              *)
(***************************************************************************)
Last(log) == log[Len(log)]

LastBy(log) == IF Len(log) = 0 THEN "none" ELSE Last(log).by

\* the step appended a history entry produced by `by`
Produced(by) == Len(appended') = Len(appended) + 1 /\ Last(appended').by = by

NonNegative(r) == r.mq3 >= 0 /\ r.mq4 >= 0 /\ r.mq8 >= 0 /\ r.mq135 >= 0

\* C1: while disconnected or in manual mode, every step that changes the
\* Reading is a manual injection: no period of wall-clock time changes it.
C1_NoTickWhileStopped ==
    [][((~isConnected \/ dataSource = "manual") /\ sensorData' # sensorData)
        => Produced("inject")]_vars

\* the generator ran, was stopped, and time has passed since its last tick
C1_Witness ==
    /\ ~isConnected
    /\ Len(appended) >= 2
    /\ LastBy(appended) = "tick"
    /\ Last(appended).entry.time # TimeText(now)
    /\ sensorData.mq3 = Last(appended).entry.mq3

\* C2: at most one interval timer is active, only while connected in
\* simulation mode, and it is the one the current effect's cleanup cancels.
C2_OneTimer ==
    /\ Cardinality(timers) <= 1
    /\ timers # {} => (isConnected /\ dataSource = "simulation")
    /\ timers = (IF interval = NoInterval THEN {} ELSE {interval})

\* a timer is active again after an earlier one ticked and was cancelled by
\* an injection
C2_Witness ==
    /\ timers # {}
    /\ \E i, j \in 1..Len(appended) :
          i < j /\ appended[i].by = "tick" /\ appended[j].by = "inject"

\* C3: the history buffer never holds more than 20 entries.
C3_HistoryBounded == Len(dataHistory) <= 20

\* more than 20 entries have been appended and the buffer is full
C3_Witness == Len(appended) > 20 /\ Len(dataHistory) = 20

\* C4: after n appends the buffer is the last min(n, 20) appended entries,
\* unaltered and in their original order, oldest first.
C4_DropOldest ==
    LET n == Len(appended)
        k == IF n < 20 THEN n ELSE 20
    IN  /\ Len(dataHistory) = k
        /\ \A i \in 1..k : dataHistory[i] = appended[n - k + i].entry

\* 25 appends have left exactly entries 6..25
C4_Witness ==
    /\ Len(appended) = 25
    /\ Len(dataHistory) = 20
    /\ dataHistory[1] = appended[6].entry
    /\ dataHistory[20] = appended[25].entry
    /\ dataHistory[1] # dataHistory[2]

\* C5: the status is SPOILED iff mq3 > 300 (mq3 = 300 is FRESH), whatever
\* the other channels and the session state.
C5_StatusIffAbove300 ==
    verdict.status = (IF sensorData.mq3 > 300000 THEN "SPOILED" ELSE "FRESH")

\* an injected Reading with mq3 = 300 exactly is FRESH
C5_Witness ==
    /\ Len(appended) >= 2
    /\ LastBy(appended) = "inject"
    /\ sensorData.mq3 = 300000
    /\ verdict.status = "FRESH"

\* the confidence text as a number of hundredths
Hundredths(text) == StringToNumber(text).val \div 10

\* C6: the reported confidence is min(99.9, 85 + (p - 300) * 0.1) when
\* SPOILED and min(99.9, 90 + (300 - p) * 0.05) when FRESH, to two decimal
\* places; it lies in [0, 99.9]; 300 -> 90.00, 301 -> 85.10, 1000 -> 99.90,
\* 0 -> 99.90.
C6_Confidence ==
    LET p     == sensorData.mq3
        raw   == IF p > 300000 THEN 8500000 + (p - 300000) * 10
                               ELSE 9000000 + (300000 - p) * 5
        exact == IF raw < 9990000 THEN raw ELSE 9990000
        got   == Hundredths(verdict.confidence)
    IN  /\ got * 1000 - exact <= 500
        /\ exact - got * 1000 <= 500
        /\ got >= 0 /\ got <= 9990
        /\ p = 300000 => verdict.confidence = <<"9", "0", ".", "0", "0">>
        /\ p = 301000 => verdict.confidence = <<"8", "5", ".", "1", "0">>
        /\ p = 1000000 => verdict.confidence = <<"9", "9", ".", "9", "0">>
        /\ p = 0 => verdict.confidence = <<"9", "9", ".", "9", "0">>

\* an injected Reading with mq3 = 301 reports 85.10
C6_Witness ==
    /\ LastBy(appended) = "inject"
    /\ sensorData.mq3 = 301000
    /\ verdict.confidence = <<"8", "5", ".", "1", "0">>

NoDigit(text) == \A i \in 1..Len(text) : ~IsDigit(text[i])

ExampleForm ==
    [mq3   |-> TextField(<<"a", "b", "c">>), mq4   |-> TextField(<<"5", "0">>),
     mq8   |-> TextField(<<>>),              mq135 |-> TextField(<<"1", "0">>)]

\* C7: an injection, from any state, leaves connected = false and
\* source = manual and makes the Reading the form's values, a field with no
\* digit in it (blank or non-numeric) giving 0 and a field of digits its
\* value; {"abc", "50", "", "10"} gives {0, 50, 0, 10}.
C7_InjectCoerces ==
    [][Produced("inject") =>
        /\ ~isConnected' /\ dataSource' = "manual"
        /\ \A f \in Fields :
              /\ (~manualInput[f].isNum /\ NoDigit(manualInput[f].text))
                    => sensorData'[f] = 0
              /\ (~manualInput[f].isNum /\ Len(manualInput[f].text) > 0
                    /\ AllDigits(manualInput[f].text))
                    => sensorData'[f] = DigitsValue(manualInput[f].text) * 1000
        /\ manualInput = ExampleForm
              => sensorData' = [mq3 |-> 0, mq4 |-> 50000, mq8 |-> 0, mq135 |-> 10000]]_vars

\* the example form was injected while the generator was running
C7_Witness ==
    /\ manualInput = ExampleForm
    /\ LastBy(appended) = "inject"
    /\ Ticks(appended) >= 1
    /\ sensorData = [mq3 |-> 0, mq4 |-> 50000, mq8 |-> 0, mq135 |-> 10000]
    /\ ~isConnected /\ dataSource = "manual" /\ timers = {}

\* C8 (as claimed): every channel of the current Reading is >= 0.
C8_ReadingNonNegative == NonNegative(sensorData)

\* C9: every Reading a generator tick produced has all four channels >= 0.
C9_TickNonNegative ==
    \A i \in 1..Len(appended) :
        appended[i].by = "tick" => NonNegative(appended[i].entry)

\* a tick after a negative Reading: the primary channel was clamped to 0
C9_Witness ==
    /\ Len(appended) >= 2
    /\ LastBy(appended) = "tick"
    /\ appended[Len(appended) - 1].entry.mq3 < 0
    /\ Last(appended).entry.mq3 = 0

AllNumbers(input) == \A f \in Fields : input[f].isNum

\* C10: a randomize step (the form becomes four numbers) changes nothing but
\* the form, and an injection of a randomized form makes its numbers the
\* Reading.
C10_RandomizeFrame ==
    [][/\ (manualInput' # manualInput /\ AllNumbers(manualInput'))
            => UNCHANGED <<sensorData, verdict, dataHistory, appended, isConnected,
                           dataSource, timers, interval>>
       /\ (Produced("inject") /\ AllNumbers(manualInput))
            => sensorData' = [f \in Fields |-> manualInput[f].val]]_vars

\* the randomized form was injected and is now the Reading
C10_Witness ==
    /\ AllNumbers(manualInput)
    /\ LastBy(appended) = "inject"
    /\ sensorData = [mq3 |-> 499000, mq4 |-> 0, mq8 |-> 150000, mq135 |-> 73000]

\* C11: connected together with source = manual is unreachable: connected
\* implies source = simulation.
C11_ConnectedImpliesSimulation == isConnected => dataSource = "simulation"

\* connected again after a manual injection had switched the source
C11_Witness ==
    /\ isConnected
    /\ Injections(appended) >= 1
    /\ dataSource = "simulation"
    /\ timers # {}

\* a step in which a generator tick or a manual injection produced a Reading
ProducesReading ==
    \/ handleManualInject(MaxLog, MaxLog)
    \/ (timers # {} /\ Elapse(TickDraws, MaxNow, MaxNow, MaxLog))

\* C12: every tick and every injection appends exactly one history entry, a
\* snapshot of the Reading it produced, also when its four values equal the
\* previous Reading's; once effects have run, the newest entry carries the
\* current Reading's values.
C12_EveryReadingRecorded ==
    /\ [](mounted => (Len(dataHistory) >= 1 /\ Channels(Last(dataHistory)) = sensorData))
    /\ [][ProducesReading =>
            /\ Len(appended') = Len(appended) + 1
            /\ Channels(Last(appended').entry) = sensorData'
            /\ Last(dataHistory') = Last(appended').entry
            /\ \/ dataHistory' = Append(dataHistory, Last(dataHistory'))
               \/ dataHistory' = Append(Tail(dataHistory), Last(dataHistory'))]_vars

\* two injections in a row produced the same four values, and both are in
\* the history
C12_Witness ==
    /\ Len(appended) >= 3
    /\ Len(dataHistory) >= 3
    /\ LastBy(appended) = "inject"
    /\ appended[Len(appended) - 1].by = "inject"
    /\ Channels(dataHistory[Len(dataHistory)]) = Channels(dataHistory[Len(dataHistory) - 1])
    /\ Channels(Last(dataHistory)) = sensorData

\* C13 (as claimed): the history is empty until the first generator tick or
\* manual injection has delivered a Reading.
C13_EmptyUntilFirstReading ==
    (Ticks(appended) = 0 /\ Injections(appended) = 0) => dataHistory = <<>>

\* a step of a control that produces no Reading
ControlStep ==
    \/ Start
    \/ Stop
    \/ SelectPort
    \/ SelectModel
    \/ generateRandomManual(FormDraws)

\* C13 (amended): the history is empty at startup; the first commit's effect
\* appends the startup Reading {45, 200, 150, 300}, which is the whole
\* history until the first tick or injection; every step leaves the history
\* as it is, appends one entry, or evicts the oldest of 20 and appends one;
\* START, STOP, randomize and port/model selection leave it as it is.
C13_NeverCleared ==
    /\ [](~mounted => dataHistory = <<>>)
    /\ []((mounted /\ Ticks(appended) = 0 /\ Injections(appended) = 0)
            => /\ Len(dataHistory) = 1
               /\ Channels(dataHistory[1]) =
                    [mq3 |-> 45000, mq4 |-> 200000, mq8 |-> 150000, mq135 |-> 300000])
    /\ [][\/ dataHistory' = dataHistory
          \/ /\ Len(dataHistory') >= 1
             /\ \/ dataHistory' = Append(dataHistory, Last(dataHistory'))
                \/ /\ Len(dataHistory) = 20
                   /\ dataHistory' = Append(Tail(dataHistory), Last(dataHistory'))]_vars
    /\ [][ControlStep => dataHistory' = dataHistory]_vars

\* the oldest entry has been evicted, and the session has since been through
\* an injection, a randomize and a port selection with the history still full
C13_Witness ==
    /\ Len(appended) > 20
    /\ Len(dataHistory) = 20
    /\ ~isConnected
    /\ Injections(appended) >= 1
    /\ AllNumbers(manualInput)
    /\ selectedPort # "COM3"

=============================================================================
